---- MODULE Spec2Model ----
(***************************************************************************)
(* Model of the push gateway's batching engine (internal/batcher) and of   *)
(* the SQLite store it writes through (internal/store).                    *)
(*                                                                         *)
(* Time is counted in ticks of 1/TicksPerSec second; the store keeps UNIX  *)
(* seconds (time.Time.Unix()), so a value written to the store loses its   *)
(* sub-second part.                                                        *)
(***************************************************************************)
EXTENDS Integers, Sequences, FiniteSets, TLC

\* ------------------------------------------------------------------ bounds
NumCallers == 2          \* concurrent request goroutines calling Queue
MaxRequests == 3         \* Queue calls (minted RequestIDs) per behaviour
MaxSerialRequests == 4   \* the same, for one caller on one endpoint
NumPushes == 2           \* concurrent POST /push requests
MaxTime == 2             \* last tick of the clock
MaxStoreFaults == 1      \* store operations that may fail with an I/O error
MaxCrashes == 1          \* process crashes followed by a restart
TicksPerSec == 2         \* clock resolution: ticks per UNIX second
\* configuration (batcher.Config), scaled down
BatchWindow == 1         \* cfg.BatchWindow, in ticks
MaxBatchSize == 2        \* cfg.MaxBatchSize
StatusRetention == 1     \* cfg.StatusRetention, in ticks
pageSize == 2            \* Recover's page size (100 in the source)

Endpoints == {"e1", "e2", "e3"}
\* endpoints that live traffic addresses (the third one is only recovered)
LiveEndpoints == {"e1", "e2"}
Callers == 1..NumCallers
\* the RequestIDs a behaviour can mint
Rids == 1..(IF MaxRequests > MaxSerialRequests THEN MaxRequests
            ELSE MaxSerialRequests)
\* the content identifiers of the r-th request: one or two identifiers, all
\* distinct from those of every other request
PayloadOf(r) == IF r % 2 = 1 THEN <<10 * r>> ELSE <<10 * r, 10 * r + 1>>
ProviderErrors == {"unregistered"}

\* ----------------------------------------------------------------- helpers
\* mutant: only the first notification's identifiers are collected
FlattenFirstOnly(notifs) ==
    IF notifs = <<>> THEN <<>> ELSE Head(notifs).ids

RECURSIVE Flatten(_)
\* flushSync: for each notification, allDataIDs = append(allDataIDs, DataIDs...)
Flatten(notifs) ==
    IF notifs = <<>> THEN <<>>
    ELSE Head(notifs).ids \o Flatten(Tail(notifs))

RidsOf(notifs) == [i \in 1..Len(notifs) |-> notifs[i].rid]
RidSet(notifs) == {notifs[i].rid : i \in 1..Len(notifs)}
Range(s) == {s[i] : i \in 1..Len(s)}
RemoveAt(s, i) == SubSeq(s, 1, i - 1) \o SubSeq(s, i + 1, Len(s))
Min(a, b) == IF a < b THEN a ELSE b

\* time.Time.Unix(): whole seconds since the epoch
Unix(t) == t \div TicksPerSec
\* time.Unix(sec, 0)
FromUnix(sec) == sec * TicksPerSec

NoTime == -1

\* serializeNotifications: the JSON array of {DataIDs, RequestID} objects,
\* here a sequence of <<RequestID, DataIDs>> pairs
serializeNotifications(notifs) ==
    [i \in 1..Len(notifs) |-> <<notifs[i].rid, notifs[i].ids>>]
\* deserializeNotifications
deserializeNotifications(data) ==
    [i \in 1..Len(data) |-> [ids |-> data[i][2], rid |-> data[i][1]]]

\* entry.batch == nil
NilBatch == [nil |-> TRUE, notifs |-> <<>>, createdAt |-> 0, flushAt |-> 0]
NoRow == [present |-> FALSE, data |-> <<>>, createdAt |-> 0, flushAt |-> 0]
NoTimer == [st |-> "none", at |-> 0]
IdleCall == [pc |-> "idle", e |-> "e1", ids |-> <<>>, rid |-> 0,
             isNew |-> FALSE, t0 |-> 0, saved |-> FALSE, late |-> FALSE]
IdleRec == [pc |-> "load", todo |-> {}, n |-> 0]
\* the POST /push requests the server is handling
Pushes == 1..NumPushes
\* a request that has reached HandlePush: nothing done yet, nothing written
IdlePush == [pc |-> "parse", calls |-> <<>>, accepted |-> FALSE, code |-> 0,
             http |-> 0, rid |-> 0, msg |-> ""]
NoReply == [op |-> "none"]

VARIABLES
    now,            \* the clock, in ticks
    phase,          \* "recover" (main is inside Recover), "serving", "failed",
                    \* "closed" (main has closed the store), "exited"
    stopped,        \* Batcher.stopped
    entries,        \* keys of Batcher.batches
    lock,           \* batchEntry.mu per endpoint: free | queue | flush | orphan
    batch,          \* batchEntry.batch per endpoint
    timer,          \* Batcher.timers per endpoint, with the state of that timer
    strays,         \* pending timers no longer in Batcher.timers, per endpoint
    orphans,        \* lock goroutines of Queue calls that gave up, per endpoint
    flushPending,   \* flush goroutines that have not taken the lock yet
    inFlush,        \* flushes past the lock, per endpoint
    call,           \* the Queue call of each caller
    nextRid,        \* next RequestID to mint
    rec,            \* position of Recover's loop
    recPage,        \* the page Recover loaded
    left,           \* table batches as it was when this process started
    storeBatches,   \* table batches
    storeStatus,    \* table status
    push,           \* the POST /push requests being handled by HandlePush
    reply,          \* what the last status query or cleanup run returned
    faults,         \* store failures still to come
    crashes,        \* crashes so far
    \* history
    admitted,       \* per endpoint, notifications appended by Queue, in order
    sent,           \* per endpoint, the provider calls, in order
    outcome,        \* per minted RequestID, how its Queue call ended
    fired,          \* per endpoint, whether a timer callback has run
    durable,        \* RequestIDs returned after a successful SaveBatch
    published       \* RequestIDs that have had a status row

vars == <<now, phase, stopped, entries, lock, batch, timer, strays, orphans,
          flushPending, inFlush, call, nextRid, rec, recPage, left, storeBatches,
          storeStatus, push, reply, faults, crashes, admitted, sent, outcome,
          fired, durable,
                   published>>

engineVars == <<stopped, entries, lock, batch, timer, strays, orphans,
                flushPending, inFlush>>
storeVars == <<storeBatches, storeStatus>>
histVars == <<admitted, sent, outcome, fired, durable, published>>
recVars == <<rec, recPage, left>>
outVars == <<push, reply>>

\* the state New() builds
FreshEngine ==
    /\ stopped = FALSE
    /\ entries = {}
    /\ lock = [e \in Endpoints |-> "free"]
    /\ batch = [e \in Endpoints |-> NilBatch]
    /\ timer = [e \in Endpoints |-> NoTimer]
    /\ strays = [e \in Endpoints |-> <<>>]
    /\ orphans = [e \in Endpoints |-> 0]
    /\ flushPending = [e \in Endpoints |-> 0]
    /\ inFlush = [e \in Endpoints |-> <<>>]
    /\ call = [c \in Callers |-> IdleCall]
    /\ rec = IdleRec
    /\ recPage = [e \in Endpoints |-> NoRow]
    /\ push = [h \in Pushes |-> IdlePush]
    /\ reply = NoReply

FreshHistory ==
    /\ admitted = [e \in Endpoints |-> <<>>]
    /\ sent = [e \in Endpoints |-> <<>>]
    /\ outcome = [r \in Rids |-> "none"]
    /\ fired = [e \in Endpoints |-> FALSE]
    /\ durable = {}
    /\ published = {}

\* main has built the engine and Recover has returned on an empty store
Init ==
    /\ now = 0
    /\ phase = "serving"
    /\ FreshEngine
    /\ FreshHistory
    /\ nextRid = 1
    /\ storeBatches = [e \in Endpoints |-> NoRow]
    /\ left = storeBatches
    /\ storeStatus = << >>
    /\ faults = MaxStoreFaults
    /\ crashes = 0

\* ------------------------------------------------------------------- store
\* mutant: the batch is persisted as it was before the append
SaveBatchBeforeAppend(rows, e, b) ==
    [rows EXCEPT ![e] = [present |-> TRUE,
                         data |-> serializeNotifications(
                                      SubSeq(b.notifs, 1, Len(b.notifs) - 1)),
                         createdAt |-> Unix(b.createdAt),
                         flushAt |-> Unix(b.flushAt)]]

\* SaveBatch: INSERT OR REPLACE the row of the endpoint
SaveBatch(rows, e, b) ==
    [rows EXCEPT ![e] = [present |-> TRUE,
                         data |-> serializeNotifications(b.notifs),
                         createdAt |-> Unix(b.createdAt),
                         flushAt |-> Unix(b.flushAt)]]

\* the status row DeleteBatchAndSetStatus writes for each request
StatusRow(status) ==
    [state |-> status.state,
     sentAt |-> IF status.sentAt = NoTime THEN NoTime ELSE Unix(status.sentAt),
     error |-> status.error,
     expiresAt |-> Unix(status.expiresAt)]

\* mutant: the upsert rewrites every row of the table
UpsertStatusOfAll(tbl, rids, row) ==
    [r \in (DOMAIN tbl) \cup rids |-> row]

\* rows of table status after the upsert of one row per RequestID
UpsertStatus(tbl, rids, row) ==
    [r \in (DOMAIN tbl) \cup rids |-> IF r \in rids THEN row ELSE tbl[r]]

\* GetStatus: the row, or not found
GetStatus(r) ==
    IF r \in DOMAIN storeStatus
    THEN [found |-> TRUE,
          state |-> storeStatus[r].state,
          sentAt |-> IF storeStatus[r].sentAt = NoTime THEN NoTime
                     ELSE FromUnix(storeStatus[r].sentAt),
          error |-> storeStatus[r].error,
          expiresAt |-> FromUnix(storeStatus[r].expiresAt)]
    ELSE [found |-> FALSE, state |-> "", sentAt |-> NoTime, error |-> "",
          expiresAt |-> 0]

\* --------------------------------------------------------------- the clock
Tick ==
    /\ now < MaxTime
    /\ now' = now + 1
    /\ UNCHANGED <<phase, engineVars, call, nextRid, recVars, storeVars,
                   faults, crashes, outVars, histVars>>

\* ----------------------------------------------------------- the engine lock
\* mutant: flushSync keeps b.mu from its map lookup until it returns
holdsMuThroughFlush(thread, pc) ==
    thread = "flushSync" /\ pc \in {"send", "publish"}

\* whether a thread that stands at position pc, between two of its steps,
\* holds b.mu: every b.mu.Lock() is followed by its Unlock() before the next
\* entry.mu.Lock(), select, SaveBatch, Send or DeleteBatchAndSetStatus
holdsMu(thread, pc) == FALSE

\* the threads that hold b.mu
muHolders ==
    {<<"Queue", c, "">> :
        c \in {d \in Callers : call[d].pc # "idle"
                                 /\ holdsMu("Queue", call[d].pc)}}
    \cup {<<"flushSync", 0, e>> :
        e \in {g \in Endpoints :
                  \E i \in 1..Len(inFlush[g]) :
                      holdsMu("flushSync", inFlush[g][i].pc)}}

\* whether b.mu.Lock() can return for a thread
CanLockMu(self) == muHolders \subseteq {self}

\* ------------------------------------------------------------------ timers
\* startTimer: nothing once stopped; otherwise stop the endpoint's timer, if
\* any, and put a new one in the map
startTimer(e, duration) ==
    IF stopped THEN timer
    ELSE [timer EXCEPT ![e] = [st |-> "pending", at |-> now + duration]]

\* mutant: the timers of all endpoints are stopped and deleted
stopTimerOfAll(tm, e) == [g \in Endpoints |-> NoTimer]

\* stopTimer: stop the endpoint's timer and delete it from the map
stopTimer(tm, e) == [tm EXCEPT ![e] = NoTimer]

\* the callback of the timer in the map runs: go b.flush(fcmToken)
TimerFire(e) ==
    /\ timer[e].st = "pending"
    /\ now >= timer[e].at
    /\ timer' = [timer EXCEPT ![e] = [st |-> "fired", at |-> 0]]
    /\ flushPending' = [flushPending EXCEPT ![e] = @ + 1]
    /\ fired' = [fired EXCEPT ![e] = TRUE]
    /\ UNCHANGED <<now, phase, stopped, entries, lock, batch, strays, orphans,
                   inFlush, call, nextRid, recVars, storeVars, faults,
                   crashes, outVars, admitted, sent, outcome, durable,
                   published>>

\* the callback of a timer that was dropped from the map without being
\* stopped runs
StrayFire(e) ==
    \E i \in 1..Len(strays[e]) :
        /\ now >= strays[e][i]
        /\ strays' = [strays EXCEPT ![e] = RemoveAt(@, i)]
        /\ flushPending' = [flushPending EXCEPT ![e] = @ + 1]
        /\ fired' = [fired EXCEPT ![e] = TRUE]
        /\ UNCHANGED <<now, phase, stopped, entries, lock, batch, timer,
                       orphans, inFlush, call, nextRid, recVars, storeVars,
                       faults, crashes, outVars, admitted, sent, outcome, durable,
                   published>>

\* ------------------------------------------------------------------- Queue
\* Queue, up to the select: mint the RequestID, getOrCreateEntry, start the
\* goroutine that locks the entry
QueueStart(c, e, ids) ==
    /\ phase = "serving"
    /\ call[c].pc = "idle"
    /\ CanLockMu(<<"Queue", c, "">>)
    \* callers and endpoints are interchangeable: the lowest idle caller
    \* calls, and e2 is addressed only after e1
    /\ \A d \in Callers : d < c => call[d].pc # "idle"
    /\ e = "e2" => "e1" \in entries
    /\ call' = [call EXCEPT ![c] = [IdleCall EXCEPT !.pc = "wait", !.e = e,
                                     !.ids = ids, !.rid = nextRid,
                                     !.late = stopped]]
    /\ nextRid' = nextRid + 1
    /\ entries' = entries \cup {e}
    /\ UNCHANGED <<now, phase, stopped, lock, batch, timer, strays, orphans,
                   flushPending, inFlush, recVars, storeVars, faults, crashes, outVars,
                   histVars>>

\* mutant: the entry lock excludes nobody
CanLockAlways(e) == TRUE

\* whether entry.mu.Lock() can return
CanLock(e) == lock[e] = "free"

\* select, case <-locked: the goroutine got the lock
QueueLock(c) ==
    /\ call[c].pc = "wait"
    /\ CanLock(call[c].e)
    /\ lock' = [lock EXCEPT ![call[c].e] = "queue"]
    /\ call' = [call EXCEPT ![c].pc = "locked"]
    /\ UNCHANGED <<now, phase, stopped, entries, batch, timer, strays,
                   orphans, flushPending, inFlush, nextRid, recVars,
                   storeVars, faults, crashes, outVars, histVars>>

\* mutant: a call that gives up has put its notification in the batch
GiveUpAdmitted(c, err) ==
    /\ call' = [call EXCEPT ![c] = IdleCall]
    /\ orphans' = [orphans EXCEPT ![call[c].e] = @ + 1]
    /\ outcome' = [outcome EXCEPT ![call[c].rid] = err]
    /\ batch' = [batch EXCEPT ![call[c].e].notifs =
                     Append(@, [ids |-> call[c].ids, rid |-> call[c].rid])]
    /\ UNCHANGED <<timer, strays, storeVars, admitted, durable,
                   published>>

\* what a Queue call that gives up in the select leaves behind: its error,
\* and the goroutine still on its way to entry.mu.Lock()
GiveUp(c, err) ==
    /\ call' = [call EXCEPT ![c] = IdleCall]
    /\ orphans' = [orphans EXCEPT ![call[c].e] = @ + 1]
    /\ outcome' = [outcome EXCEPT ![call[c].rid] = err]
    /\ UNCHANGED <<batch, timer, strays, storeVars, admitted, durable,
                   published>>

\* select, case <-time.After(LockTimeout): return "", DeadlineExceeded
QueueTimeout(c) ==
    /\ call[c].pc = "wait"
    /\ GiveUp(c, "deadline")
    /\ UNCHANGED <<now, phase, stopped, entries, lock, flushPending, inFlush,
                   nextRid, recVars, faults, crashes, outVars, sent, fired>>

\* select, case <-ctx.Done(): return "", ctx.Err()
QueueCancel(c) ==
    /\ call[c].pc = "wait"
    /\ GiveUp(c, "canceled")
    /\ UNCHANGED <<now, phase, stopped, entries, lock, flushPending, inFlush,
                   nextRid, recVars, faults, crashes, outVars, sent, fired>>

\* the goroutine of a call that gave up gets the lock; nobody unlocks it
OrphanLock(e) ==
    /\ orphans[e] > 0
    /\ CanLock(e)
    /\ lock' = [lock EXCEPT ![e] = "orphan"]
    /\ orphans' = [orphans EXCEPT ![e] = @ - 1]
    /\ UNCHANGED <<now, phase, stopped, entries, batch, timer, strays,
                   flushPending, inFlush, call, nextRid, recVars, storeVars,
                   faults, crashes, outVars, histVars>>

\* mutant: the notification is put in front of the batch
AppendNotificationInFront(b, ids, rid) ==
    LET base == IF b.nil
                THEN [nil |-> FALSE, notifs |-> <<>>, createdAt |-> now,
                      flushAt |-> now + BatchWindow]
                ELSE b
    IN [base EXCEPT !.notifs = <<[ids |-> ids, rid |-> rid]>> \o @]

\* mutant: every append opens a new window
AppendNotificationNewWindow(b, ids, rid) ==
    [nil |-> FALSE,
     notifs |-> Append(IF b.nil THEN <<>> ELSE b.notifs,
                       [ids |-> ids, rid |-> rid]),
     createdAt |-> IF b.nil THEN now ELSE b.createdAt,
     flushAt |-> now + BatchWindow]

\* the batch after Queue's append (a nil batch is created first)
AppendNotification(b, ids, rid) ==
    LET base == IF b.nil
                THEN [nil |-> FALSE, notifs |-> <<>>, createdAt |-> now,
                      flushAt |-> now + BatchWindow]
                ELSE b
    IN [base EXCEPT !.notifs = Append(@, [ids |-> ids, rid |-> rid])]

\* mutant: Queue does not look at b.stopped
stoppedNever == FALSE

\* Queue, under the lock: b.mu.Lock(); if b.stopped
stoppedSeen == stopped

\* mutant: the append is undone when SaveBatch fails
dropOnSaveError(old, b) == old

\* Queue, SaveBatch returned an error: "Continue anyway - we have it in
\* memory"; the entry keeps the batch with the appended notification
afterSaveError(old, b) == b

\* Queue under the lock: return Canceled when stopped; else append to the
\* batch and SaveBatch (an error is logged and ignored)
QueueAdmit(c) ==
    LET e == call[c].e IN
    /\ call[c].pc = "locked"
    /\ CanLockMu(<<"Queue", c, "">>)
    /\ IF stoppedSeen
       THEN /\ call' = [call EXCEPT ![c] = IdleCall]
            /\ lock' = [lock EXCEPT ![e] = "free"]
            /\ outcome' = [outcome EXCEPT ![call[c].rid] = "stopped"]
            /\ UNCHANGED <<batch, storeBatches, faults, admitted>>
       ELSE LET isNew == batch[e].nil \/ Len(batch[e].notifs) = 0
                b == AppendNotification(batch[e], call[c].ids, call[c].rid)
            IN /\ admitted' = [admitted EXCEPT ![e] =
                      Append(@, [ids |-> call[c].ids, rid |-> call[c].rid])]
               /\ \/ /\ storeBatches' = SaveBatch(storeBatches, e, b)
                     /\ batch' = [batch EXCEPT ![e] = b]
                     /\ call' = [call EXCEPT ![c].pc = "saved",
                                             ![c].isNew = isNew,
                                             ![c].t0 = now,
                                             ![c].saved = TRUE]
                     /\ UNCHANGED faults
                  \/ /\ faults > 0
                     /\ faults' = faults - 1
                     /\ call' = [call EXCEPT ![c].pc = "saved",
                                             ![c].isNew = isNew,
                                             ![c].t0 = now]
                     /\ batch' = [batch EXCEPT ![e] = afterSaveError(@, b)]
                     /\ UNCHANGED storeBatches
               /\ UNCHANGED <<lock, outcome>>
    /\ UNCHANGED <<now, phase, stopped, entries, timer, strays, orphans,
                   flushPending, inFlush, nextRid, recVars, storeStatus,
                   crashes, outVars, sent, fired, durable,
                   published>>

\* Queue: if isNewBatch, startTimer(fcmToken, FlushAt.Sub(now))
QueueTimer(c) ==
    LET e == call[c].e IN
    /\ call[c].pc = "saved"
    /\ call[c].isNew => CanLockMu(<<"Queue", c, "">>)
    /\ timer' = IF call[c].isNew
                THEN startTimer(e, batch[e].flushAt - call[c].t0)
                ELSE timer
    /\ call' = [call EXCEPT ![c].pc = "timed", ![c].t0 = 0]
    /\ UNCHANGED <<now, phase, stopped, entries, lock, batch, strays, orphans,
                   flushPending, inFlush, nextRid, recVars, storeVars, faults,
                   crashes, outVars, histVars>>

\* mutant: the size check uses > instead of >=
SizeReachedLate(b) == Len(b.notifs) > MaxBatchSize

\* mutant: the size check is off by one the other way
SizeReachedEarly(b) == Len(b.notifs) >= MaxBatchSize - 1

\* len(entry.batch.Notifications) >= MaxBatchSize
SizeReached(b) == Len(b.notifs) >= MaxBatchSize

\* Queue: the size check (stopTimer, go b.flush), return the RequestID and
\* unlock the entry
QueueFinish(c) ==
    LET e == call[c].e IN
    /\ call[c].pc = "timed"
    /\ IF SizeReached(batch[e])
       THEN /\ CanLockMu(<<"Queue", c, "">>)
            /\ timer' = stopTimer(timer, e)
            /\ flushPending' = [flushPending EXCEPT ![e] = @ + 1]
       ELSE UNCHANGED <<timer, flushPending>>
    /\ lock' = [lock EXCEPT ![e] = "free"]
    /\ outcome' = [outcome EXCEPT ![call[c].rid] = "ok"]
    /\ durable' = IF call[c].saved THEN durable \cup {call[c].rid} ELSE durable
    /\ call' = [call EXCEPT ![c] = IdleCall]
    /\ UNCHANGED <<now, phase, stopped, entries, batch, strays, orphans,
                   inFlush, nextRid, recVars, storeVars, faults, crashes, outVars,
                   admitted, sent, fired, published>>

\* ------------------------------------------------------------------- flush
\* mutant: the batch row is deleted but no status row is written
DeleteBatchOnly(rows, tbl, e, status) ==
    [rows |-> [rows EXCEPT ![e] = NoRow], tbl |-> tbl]

\* mutant: the status rows are written but the batch row stays
SetStatusKeepRow(rows, tbl, e, status) ==
    IF ~rows[e].present
    THEN [rows |-> rows, tbl |-> tbl]
    ELSE [rows |-> rows,
          tbl |-> UpsertStatus(tbl, RidSet(deserializeNotifications(rows[e].data)),
                               StatusRow(status))]

\* DeleteBatchAndSetStatus, committed: nothing when the endpoint has no row;
\* else the row is deleted and every RequestID in it gets the status
DeleteBatchAndSetStatus(rows, tbl, e, status) ==
    IF ~rows[e].present
    THEN [rows |-> rows, tbl |-> tbl]
    ELSE [rows |-> [rows EXCEPT ![e] = NoRow],
          tbl |-> UpsertStatus(tbl, RidSet(deserializeNotifications(rows[e].data)),
                               StatusRow(status))]

\* the work DeleteBatchAndSetStatus has done inside its transaction when a
\* statement fails after k status rows: the batch row deleted, the first k
\* RequestIDs upserted
DeleteBatchPartial(rows, tbl, e, status, k) ==
    IF ~rows[e].present
    THEN [rows |-> rows, tbl |-> tbl]
    ELSE LET rids == RidsOf(deserializeNotifications(rows[e].data))
         IN [rows |-> [rows EXCEPT ![e] = NoRow],
             tbl |-> UpsertStatus(tbl,
                                  {rids[i] : i \in 1..Min(k, Len(rids))},
                                  StatusRow(status))]

\* mutant: the statements run without a transaction, so what was done
\* before the failure stays
FailedTxKeepsWork(rows, tbl, e, status, k) ==
    DeleteBatchPartial(rows, tbl, e, status, k)

\* DeleteBatchAndSetStatus returning an error after k status rows: the
\* deferred tx.Rollback() discards the work
FailedTx(rows, tbl, e, status, k) ==
    LET work == DeleteBatchPartial(rows, tbl, e, status, k)
    IN [rows |-> rows, tbl |-> tbl]

\* mutant: a failed flush gets a generic error text and a sent_at
FlushStatusGeneric(res, t) ==
    IF res = "ok"
    THEN [state |-> "sent", sentAt |-> t, error |-> "",
          expiresAt |-> t + StatusRetention]
    ELSE [state |-> "failed", sentAt |-> t, error |-> "send failed",
          expiresAt |-> t + StatusRetention]

\* the store.Status flushSync builds from the result of Send
FlushStatus(res, t) ==
    IF res = "ok"
    THEN [state |-> "sent", sentAt |-> t, error |-> "",
          expiresAt |-> t + StatusRetention]
    ELSE [state |-> "failed", sentAt |-> NoTime, error |-> res,
          expiresAt |-> t + StatusRetention]

\* flushSync up to the provider call: look the entry up, lock it, return when
\* there is nothing to send, else collect all data IDs
FlushLock(e) ==
    /\ flushPending[e] > 0
    /\ CanLockMu(<<"flushSync", 0, e>>)
    /\ flushPending' = [flushPending EXCEPT ![e] = @ - 1]
    /\ IF e \notin entries
       THEN UNCHANGED <<lock, inFlush>>
       ELSE /\ CanLock(e)
            /\ IF batch[e].nil \/ Len(batch[e].notifs) = 0
               THEN UNCHANGED <<lock, inFlush>>
               ELSE /\ lock' = [lock EXCEPT ![e] = "flush"]
                    /\ inFlush' = [inFlush EXCEPT ![e] =
                           Append(@, [pc |-> "send",
                                      ids |-> Flatten(batch[e].notifs),
                                      rids |-> RidsOf(batch[e].notifs),
                                      res |-> "", at |-> 0,
                                      atStop |-> FALSE])]
    /\ UNCHANGED <<now, phase, stopped, entries, batch, timer, strays,
                   orphans, call, nextRid, recVars, storeVars, faults,
                   crashes, outVars, histVars>>

\* flushSync: now := time.Now(); err := b.sender.Send(ctx, fcmToken, allDataIDs)
FlushSend(e) ==
    \E i \in 1..Len(inFlush[e]) :
    \E res \in {"ok"} \cup ProviderErrors :
        /\ inFlush[e][i].pc = "send"
        /\ inFlush' = [inFlush EXCEPT ![e][i].pc = "publish",
                                      ![e][i].res = res,
                                      ![e][i].at = now]
        /\ sent' = [sent EXCEPT ![e] =
               Append(@, [ids |-> inFlush[e][i].ids,
                          rids |-> inFlush[e][i].rids,
                          res |-> res, at |-> now])]
        /\ UNCHANGED <<now, phase, stopped, entries, lock, batch, timer,
                       strays, orphans, flushPending, call, nextRid, recVars,
                       storeVars, faults, crashes, outVars, admitted, outcome, fired,
                       durable,
                   published>>

\* mutant: the batch of a failed provider call stays, to be sent again
keepFailedBatch(b, res, storeErr) == IF res # "ok" THEN b ELSE NilBatch

\* mutant: the batch stays in memory when its store write failed
keepUnpublishedBatch(b, res, storeErr) == IF storeErr THEN b ELSE NilBatch

\* flushSync, "Clear from memory": entry.batch = nil, whatever Send and
\* DeleteBatchAndSetStatus returned
clearBatch(b, res, storeErr) == NilBatch

\* flushSync after Send: DeleteBatchAndSetStatus (an error is logged and
\* ignored; on a closed database every call is an error), entry.batch = nil,
\* delete(b.timers, fcmToken), unlock
FlushDone(e) ==
    \E i \in 1..Len(inFlush[e]) :
        LET f == inFlush[e][i]
            done == DeleteBatchAndSetStatus(storeBatches, storeStatus, e,
                                            FlushStatus(f.res, f.at))
        IN /\ f.pc = "publish"
           /\ CanLockMu(<<"flushSync", 0, e>>)
           /\ \/ /\ phase # "closed"
                 /\ storeBatches' = done.rows
                 /\ storeStatus' = done.tbl
                 /\ UNCHANGED faults
                 /\ batch' = [batch EXCEPT ![e] =
                                  clearBatch(@, f.res, FALSE)]
              \/ /\ phase = "closed"
                 /\ UNCHANGED <<storeVars, faults>>
                 /\ batch' = [batch EXCEPT ![e] =
                                  clearBatch(@, f.res, TRUE)]
              \/ /\ faults > 0
                 /\ faults' = faults - 1
                 /\ \E k \in 0..Len(storeBatches[e].data) :
                        LET undone == FailedTx(storeBatches, storeStatus, e,
                                               FlushStatus(f.res, f.at), k)
                        IN /\ storeBatches' = undone.rows
                           /\ storeStatus' = undone.tbl
                 /\ batch' = [batch EXCEPT ![e] =
                                  clearBatch(@, f.res, TRUE)]
           /\ timer' = [timer EXCEPT ![e] = NoTimer]
           /\ strays' = IF timer[e].st = "pending"
                        THEN [strays EXCEPT ![e] = Append(@, timer[e].at)]
                        ELSE strays
           /\ lock' = [lock EXCEPT ![e] = "free"]
           /\ inFlush' = [inFlush EXCEPT ![e] = RemoveAt(@, i)]
           /\ published' = published \cup DOMAIN storeStatus'
           /\ UNCHANGED <<now, phase, stopped, entries, orphans, flushPending,
                          call, nextRid, recVars, crashes, outVars, admitted,
                          sent, outcome, fired, durable>>

\* -------------------------------------------------------------------- Stop
\* Stop: set stopped, stop every timer in the map and empty the map (the
\* flushes past the lock are not touched; they are marked as in flight at Stop)
Stop ==
    /\ phase = "serving"
    /\ CanLockMu(<<"Stop", 0, "">>)
    /\ stopped' = TRUE
    /\ timer' = [e \in Endpoints |-> NoTimer]
    /\ inFlush' = [e \in Endpoints |->
                      [i \in 1..Len(inFlush[e]) |->
                          [inFlush[e][i] EXCEPT !.atStop = TRUE]]]
    /\ UNCHANGED <<now, phase, entries, lock, batch, strays, orphans,
                   flushPending, call, nextRid, recVars, storeVars,
                   faults, crashes, outVars, histVars>>

\* main returns after the shutdown signal: the deferred b.Stop() has run, now
\* the deferred st.Close()
CloseStore ==
    /\ phase = "serving"
    /\ stopped
    /\ phase' = "closed"
    /\ UNCHANGED <<now, engineVars, call, nextRid, recVars, storeVars, faults,
                   crashes, outVars, histVars>>

\* main has returned: the process exits, and with it every goroutine still
\* running; the store file stays
Exit ==
    /\ phase = "closed"
    /\ phase' = "exited"
    /\ entries' = {}
    /\ lock' = [e \in Endpoints |-> "free"]
    /\ batch' = [e \in Endpoints |-> NilBatch]
    /\ timer' = [e \in Endpoints |-> NoTimer]
    /\ strays' = [e \in Endpoints |-> <<>>]
    /\ orphans' = [e \in Endpoints |-> 0]
    /\ flushPending' = [e \in Endpoints |-> 0]
    /\ inFlush' = [e \in Endpoints |-> <<>>]
    /\ call' = [c \in Callers |-> IdleCall]
    /\ UNCHANGED <<now, stopped, nextRid, recVars, storeVars, faults, crashes,
                   outVars, histVars>>

\* ----------------------------------------------------------------- cleanup
\* mutant: a row is deleted only a second after it expired
CleanupExpiredLate(tbl, t) ==
    [r \in {x \in DOMAIN tbl : ~(tbl[x].expiresAt + 1 < Unix(t))} |-> tbl[r]]

\* CleanupExpiredStatus: DELETE FROM status WHERE expires_at < now
CleanupExpiredStatus(tbl, t) ==
    [r \in {x \in DOMAIN tbl : ~(tbl[x].expiresAt < Unix(t))} |-> tbl[r]]

\* CleanupExpiredStatus: result.RowsAffected() of that DELETE
CleanupCount(tbl, t) ==
    Cardinality({x \in DOMAIN tbl : tbl[x].expiresAt < Unix(t)})

\* main's hourly cleanup goroutine, until shutdown: CleanupExpiredStatus, and
\* the count is logged when it is positive (a failed run changes nothing)
Cleanup ==
    /\ phase = "serving"
    /\ ~stopped
    /\ storeStatus' = CleanupExpiredStatus(storeStatus, now)
    /\ reply' = IF CleanupCount(storeStatus, now) > 0
                THEN [op |-> "cleanup",
                      count |-> CleanupCount(storeStatus, now)]
                ELSE reply
    /\ UNCHANGED <<now, phase, engineVars, call, nextRid, recVars,
                   storeBatches, faults, crashes, push, histVars>>

\* -------------------------------------------------------------- HandlePush
ErrorCodeSuccess == 0
ErrorCodeNoEndpoints == 1
ErrorCodeNoConsent == 2
ErrorCodeSignatureFailed == 3
ErrorCodeInvalidRequest == 4

\* what a step of the pipeline got: an error, or a value (for a metadata
\* lookup 1 or 0 for true or false, for GetEndpoints the number of endpoints)
StepResult(err, val) == [err |-> err, val |-> val, detail |-> ""]
\* the texts err.Error() can give: errors differ in their content
ErrorDetails == {"rpc error: deadline exceeded", "user bob: record not found"}
StepErrors == {[StepResult(TRUE, 0) EXCEPT !.detail = d] : d \in ErrorDetails}
LocalResults == {StepResult(FALSE, 1)} \cup StepErrors
MetaResults == {StepResult(FALSE, 1), StepResult(FALSE, 0)} \cup StepErrors
EndpointResults ==
    StepErrors \cup {StepResult(FALSE, n) : n \in 0..Cardinality(LiveEndpoints)}

\* mutant: only an error of the metadata client fails the step
metaFailedOnErrorOnly(res) == res.err

\* err != nil || !valid, and err != nil || !hasConsent
metaFailed(res) == res.err \/ res.val = 0

\* err != nil || len(endpoints.Endpoints) == 0
endpointsFailed(res) == res.err \/ res.val = 0

\* writeResponse: the HTTP status that goes with the error code
HttpStatus(code) ==
    IF code = ErrorCodeSuccess THEN 200
    ELSE IF code = ErrorCodeInvalidRequest THEN 400
    ELSE IF code = ErrorCodeSignatureFailed THEN 401
    ELSE IF code = ErrorCodeNoConsent THEN 403
    ELSE IF code = ErrorCodeNoEndpoints THEN 404
    ELSE 500

\* mutant: the message of a failed metadata call is the error's text
MessageWithDetail(step, res) ==
    IF res.err /\ step # "parse" THEN res.detail
    ELSE CASE step = "parse" -> "failed to parse request"
           [] step = "verify" -> "signature verification failed"
           [] step = "consent" -> "sender not in consent list"
           [] step = "endpoints" -> "no endpoints registered"

\* the Message of the PushResponse HandlePush writes when the step fails: a
\* fixed text, except for validateRequest, whose err.Error() it is
Message(step, res) ==
    CASE step = "parse" -> "failed to parse request"
      [] step = "validate" -> res.detail
      [] step = "verify" -> "signature verification failed"
      [] step = "consent" -> "sender not in consent list"
      [] step = "endpoints" -> "no endpoints registered"

\* writeResponse, and HandlePush returns
writeResponse(p, accepted, code, rid, msg) ==
    [p EXCEPT !.pc = "done", !.accepted = accepted, !.code = code,
              !.http = HttpStatus(code), !.rid = rid, !.msg = msg]

\* one validation step of HandlePush: it got res; when that is a failure the
\* response carries the step's code and HandlePush returns, else the next
\* step is due
PushStep(h, step, res, failed, code, next) ==
    /\ phase = "serving"
    /\ push[h].pc = step
    /\ LET p == [push[h] EXCEPT
                    !.calls = Append(@, [step |-> step, res |-> res])]
       IN push' = [push EXCEPT ![h] =
                      IF failed
                      THEN writeResponse(p, FALSE, code, 0, Message(step, res))
                      ELSE [p EXCEPT !.pc = next]]
    /\ UNCHANGED <<now, phase, engineVars, call, nextRid, recVars, storeVars,
                   reply, faults, crashes, histVars>>

\* Step 1: h.parseRequest(r)
PushParse(h) ==
    \E res \in LocalResults :
        PushStep(h, "parse", res, res.err, ErrorCodeInvalidRequest, "validate")

\* h.validateRequest(req)
PushValidate(h) ==
    \E res \in LocalResults :
        PushStep(h, "validate", res, res.err, ErrorCodeInvalidRequest,
                 "verify")

\* Step 2: h.ocClient.VerifyPushRequest(ctx, req)
PushVerify(h) ==
    \E res \in MetaResults :
        PushStep(h, "verify", res, metaFailed(res), ErrorCodeSignatureFailed,
                 "consent")

\* Step 3: h.isConsented(ctx, req.TargetUsername, req.SenderUsername)
PushConsent(h) ==
    \E res \in MetaResults :
        PushStep(h, "consent", res, metaFailed(res), ErrorCodeNoConsent,
                 "endpoints")

\* Step 4: h.ocClient.GetEndpoints(ctx, req.TargetUsername)
PushEndpoints(h) ==
    \E res \in EndpointResults :
        PushStep(h, "endpoints", res, endpointsFailed(res),
                 ErrorCodeNoEndpoints, "admit")

\* Step 5: requestID := uuid.New().String(), and the accepting response; the
\* batching engine is not called
PushAdmit(h) ==
    /\ phase = "serving"
    /\ push[h].pc = "admit"
    /\ nextRid \in Rids
    /\ push' = [push EXCEPT ![h] =
                   writeResponse(push[h], TRUE, ErrorCodeSuccess, nextRid, "")]
    /\ nextRid' = nextRid + 1
    /\ UNCHANGED <<now, phase, engineVars, call, recVars, storeVars, reply,
                   faults, crashes, histVars>>

\* --------------------------------------------------------- HandleGetStatus
\* mutant: the times are written as they are, without .Unix()
StatusResponseNoUnix(id, st) ==
    [op |-> "status", id |-> id, code |-> 200, state |-> st.state,
     sentAt |-> IF st.sentAt = NoTime THEN 0 ELSE st.sentAt,
     error |-> st.error, expiresAt |-> st.expiresAt]

\* the StatusResponse HandleGetStatus writes for the row GetStatus returned
\* (0 stands for a number the JSON omits)
StatusResponse(id, st) ==
    [op |-> "status", id |-> id, code |-> 200, state |-> st.state,
     sentAt |-> IF st.sentAt = NoTime THEN 0 ELSE Unix(st.sentAt),
     error |-> st.error, expiresAt |-> Unix(st.expiresAt)]

\* http.Error(w, .., code)
StatusError(id, code) ==
    [op |-> "status", id |-> id, code |-> code, state |-> "", sentAt |-> 0,
     error |-> "", expiresAt |-> 0]

\* HandleGetStatus, for the request identifier in the URL (0: none) and
\* whether the store's query fails
HandleGetStatus(id, ioError) ==
    IF id = 0 THEN StatusError(id, 400)
    ELSE IF ioError THEN StatusError(id, 500)
    ELSE IF ~GetStatus(id).found THEN StatusError(id, 404)
    ELSE StatusResponse(id, GetStatus(id))

\* GET /status/{id}
StatusQuery(id) ==
    /\ phase = "serving"
    /\ \/ /\ reply' = HandleGetStatus(id, FALSE)
          /\ UNCHANGED faults
       \/ /\ id # 0
          /\ faults > 0
          /\ faults' = faults - 1
          /\ reply' = HandleGetStatus(id, TRUE)
    /\ UNCHANGED <<now, phase, engineVars, call, nextRid, recVars, storeVars,
                   push, crashes, histVars>>

\* ----------------------------------------------------------------- Recover
Present == {e \in Endpoints : storeBatches[e].present}

\* LoadOldestBatches: the possible results of SELECT .. ORDER BY flush_at ASC
\* LIMIT ?, as sets of endpoints (the map has no order)
LoadOldestBatches(limit) ==
    {S \in SUBSET Present :
        /\ Cardinality(S) = Min(limit, Cardinality(Present))
        /\ \A a \in S, b \in Present \ S :
               storeBatches[a].flushAt <= storeBatches[b].flushAt}

\* mutant: Recover starts its flushes without waiting for them
flushesInBackground == TRUE

\* b.flushSync(ctx, fcmToken) has returned: Recover runs one flush at a time
NoFlushRunning ==
    \A e \in Endpoints : flushPending[e] = 0 /\ inFlush[e] = <<>>

\* Recover: load a page; an empty page ends the loop
RecoverLoad ==
    /\ phase = "recover"
    /\ rec.pc = "load"
    /\ \E S \in LoadOldestBatches(pageSize) :
          IF S = {}
          THEN /\ phase' = "serving"
               /\ UNCHANGED recVars
          ELSE /\ rec' = [pc |-> "flush", todo |-> S, n |-> Cardinality(S)]
               /\ recPage' = [e \in Endpoints |->
                                 IF e \in S THEN storeBatches[e] ELSE NoRow]
               /\ UNCHANGED <<phase, left>>
    /\ UNCHANGED <<now, engineVars, call, nextRid, storeVars, faults, crashes, outVars,
                   histVars>>

\* Recover: LoadOldestBatches fails, Recover returns the error and main exits
RecoverLoadFail ==
    /\ phase = "recover"
    /\ rec.pc = "load"
    /\ faults > 0
    /\ faults' = faults - 1
    /\ phase' = "failed"
    /\ UNCHANGED <<now, engineVars, call, nextRid, recVars, storeVars,
                   crashes, outVars, histVars>>

\* Recover, loop body: entry := getOrCreateEntry; entry.batch = batch;
\* flushSync (its steps are FlushLock, FlushSend, FlushDone)
RecoverFlush(e) ==
    /\ phase = "recover"
    /\ rec.pc = "flush"
    /\ e \in rec.todo
    /\ NoFlushRunning
    /\ CanLockMu(<<"Recover", 0, "">>)
    /\ entries' = entries \cup {e}
    /\ batch' = [batch EXCEPT ![e] =
           [nil |-> FALSE,
            notifs |-> deserializeNotifications(recPage[e].data),
            createdAt |-> FromUnix(recPage[e].createdAt),
            flushAt |-> FromUnix(recPage[e].flushAt)]]
    /\ flushPending' = [flushPending EXCEPT ![e] = @ + 1]
    /\ rec' = [rec EXCEPT !.todo = @ \ {e}]
    /\ UNCHANGED <<now, phase, stopped, lock, timer, strays, orphans, inFlush,
                   call, nextRid, recPage, left, storeVars, faults, crashes, outVars,
                   histVars>>

\* mutant: Recover stops after its first page
RecoverNextOnePage ==
    /\ phase = "recover"
    /\ rec.pc = "flush"
    /\ rec.todo = {}
    /\ NoFlushRunning
    /\ phase' = "serving"
    /\ rec' = IdleRec
    /\ recPage' = [e \in Endpoints |-> NoRow]
    /\ UNCHANGED <<now, engineVars, call, nextRid, left, storeVars, faults,
                   crashes, outVars, histVars>>

\* Recover, end of a page: a partial page ends the loop
RecoverNext ==
    /\ phase = "recover"
    /\ rec.pc = "flush"
    /\ rec.todo = {}
    /\ NoFlushRunning
    /\ IF rec.n < pageSize
       THEN phase' = "serving" /\ rec' = IdleRec
       ELSE phase' = phase /\ rec' = [rec EXCEPT !.pc = "load"]
    /\ recPage' = [e \in Endpoints |-> NoRow]
    /\ UNCHANGED <<now, engineVars, call, nextRid, left, storeVars, faults,
                   crashes, outVars, histVars>>

\* ------------------------------------------------------------------- crash
\* the process dies and is started again: memory is lost, the store stays,
\* main builds a new engine and calls Recover
Crash ==
    /\ crashes < MaxCrashes
    /\ crashes' = crashes + 1
    /\ phase' = "recover"
    /\ stopped' = FALSE
    /\ entries' = {}
    /\ lock' = [e \in Endpoints |-> "free"]
    /\ batch' = [e \in Endpoints |-> NilBatch]
    /\ timer' = [e \in Endpoints |-> NoTimer]
    /\ strays' = [e \in Endpoints |-> <<>>]
    /\ orphans' = [e \in Endpoints |-> 0]
    /\ flushPending' = [e \in Endpoints |-> 0]
    /\ inFlush' = [e \in Endpoints |-> <<>>]
    /\ call' = [c \in Callers |-> IdleCall]
    /\ rec' = IdleRec
    /\ recPage' = [e \in Endpoints |-> NoRow]
    /\ left' = storeBatches
    /\ push' = [h \in Pushes |-> IdlePush]
    /\ reply' = NoReply
    /\ UNCHANGED <<now, nextRid, storeVars, faults, histVars>>

\* ---------------------------------------------------------- specifications
Flushing ==
    \E e \in Endpoints : TimerFire(e) \/ StrayFire(e) \/ FlushLock(e)
                            \/ FlushSend(e) \/ FlushDone(e)

Queueing ==
    \/ \E c \in Callers, e \in LiveEndpoints :
           nextRid <= MaxRequests /\ QueueStart(c, e, PayloadOf(nextRid))
    \/ \E c \in Callers : \/ QueueLock(c)
                          \/ QueueTimeout(c)
                          \/ QueueCancel(c)
                          \/ QueueAdmit(c)
                          \/ QueueTimer(c)
                          \/ QueueFinish(c)
    \/ \E e \in Endpoints : OrphanLock(e)

Recovering ==
    \/ RecoverLoad
    \/ RecoverLoadFail
    \/ \E e \in Endpoints : RecoverFlush(e)
    \/ RecoverNext

\* the engine serving traffic in one process
Next == Tick \/ Queueing \/ Flushing \/ Stop \/ Cleanup

Spec == Init /\ [][Next]_vars

\* the engine serving traffic, a crash and the restart's Recover
NextCrash == Tick \/ Queueing \/ Flushing \/ Crash \/ Recovering

SpecCrash == Init /\ [][NextCrash]_vars

\* the engine serving traffic until main shuts the process down
NextShutdown == Next \/ CloseStore \/ Exit

SpecShutdown == Init /\ [][NextShutdown]_vars

\* ------------------------------------------------ Recover on a given store
\* the RequestIDs of the batch a previous process left for an endpoint
LeftRids(e) == IF e = "e1" THEN <<1, 2>> ELSE IF e = "e2" THEN <<3, 4>>
               ELSE <<5, 6>>

\* a batch row written by SaveBatch in a previous process, with k
\* notifications, created in second 0 and due in second f
LeftRow(e, k, f) ==
    [present |-> TRUE,
     data |-> serializeNotifications(
                  [i \in 1..k |-> [ids |-> PayloadOf(LeftRids(e)[i]),
                                   rid |-> LeftRids(e)[i]]]),
     createdAt |-> 0,
     flushAt |-> f]

LeftRows(e) == {NoRow} \cup {LeftRow(e, k, f) : k \in 1..2, f \in 0..1}

\* main has built the engine on the store a previous process left and is
\* about to call Recover
InitRecover ==
    /\ now = 0
    /\ phase = "recover"
    /\ FreshEngine
    /\ FreshHistory
    /\ nextRid = 1
    /\ storeBatches \in [Endpoints -> UNION {LeftRows(e) : e \in Endpoints}]
    /\ \A e \in Endpoints : storeBatches[e] \in LeftRows(e)
    /\ left = storeBatches
    /\ storeStatus = << >>
    /\ faults = MaxStoreFaults
    /\ crashes = 0

NextRecover ==
    \/ Tick
    \/ Recovering
    \/ \E e \in Endpoints : FlushLock(e) \/ FlushSend(e) \/ FlushDone(e)

SpecRecover == InitRecover /\ [][NextRecover]_vars

\* ------------------------------------- one caller queueing on one endpoint
QueueingOne ==
    \/ nextRid <= MaxSerialRequests /\ QueueStart(1, "e1", PayloadOf(nextRid))
    \/ QueueLock(1)
    \/ QueueTimeout(1)
    \/ QueueCancel(1)
    \/ QueueAdmit(1)
    \/ QueueTimer(1)
    \/ QueueFinish(1)
    \/ OrphanLock("e1")

StatusQueries == \E id \in {0} \cup Rids : StatusQuery(id)

\* the engine serving one caller, with the status handler, the cleanup and
\* the shutdown
NextOne == Tick \/ QueueingOne \/ Flushing \/ Stop \/ Cleanup \/ StatusQueries

SpecOne == Init /\ [][NextOne]_vars

\* ------------------------------------------------ the server's HTTP handlers
Pushing ==
    \E h \in Pushes : \/ PushParse(h)
                      \/ PushValidate(h)
                      \/ PushVerify(h)
                      \/ PushConsent(h)
                      \/ PushEndpoints(h)
                      \/ PushAdmit(h)

NextPush == Tick \/ Pushing \/ StatusQueries

SpecPush == Init /\ [][NextPush]_vars

\* ================================================================== claims
RECURSIVE Concat(_)
\* the identifiers of a sequence of provider calls, one after the other
Concat(calls) ==
    IF calls = <<>> THEN <<>> ELSE Head(calls).ids \o Concat(Tail(calls))

\* the identifiers of a sequence of notifications, one after the other
RECURSIVE IdsInOrder(_)
IdsInOrder(notifs) ==
    IF notifs = <<>> THEN <<>>
    ELSE Head(notifs).ids \o IdsInOrder(Tail(notifs))

IsPrefix(s, t) == Len(s) <= Len(t) /\ SubSeq(t, 1, Len(s)) = s

\* a sequence as a multiset: how often each element occurs
BagOf(s) == [x \in Range(s) |-> Cardinality({i \in 1..Len(s) : s[i] = x})]

\* no Queue call, flush or pending timer is left for the endpoint
QuietAt(e) ==
    /\ \A c \in Callers : call[c].pc # "idle" => call[c].e # e
    /\ flushPending[e] = 0
    /\ inFlush[e] = <<>>
    /\ orphans[e] = 0

Quiet ==
    \A e \in Endpoints :
        QuietAt(e) /\ timer[e].st # "pending" /\ strays[e] = <<>>

ProviderAlwaysOk ==
    \A e \in Endpoints : \A i \in 1..Len(sent[e]) : sent[e][i].res = "ok"

\* C1: at any moment at most one flush per endpoint is between its provider
\* call and the clearing of the in-memory batch, whatever Queue calls, timer
\* callbacks, size-triggered flushes and Recover are under way.
C1_OneFlushPerEndpoint ==
    \A e \in Endpoints : Len(inFlush[e]) <= 1

\* a flush is in its critical section while a second flush and a Queue call
\* on the same endpoint wait for the lock
C1_Witness ==
    \E e \in Endpoints :
        /\ Len(inFlush[e]) = 1
        /\ flushPending[e] >= 1
        /\ \E c \in Callers : call[c].pc = "wait" /\ call[c].e = e

\* C2: on a running engine whose provider always succeeds, once every Queue
\* call has returned, every timer has fired and every flush has finished, the
\* multiset of identifiers passed to the provider for an endpoint equals the
\* multiset admitted by the Queue calls on that endpoint.
C2_NothingLostNothingTwice ==
    (phase = "serving" /\ ~stopped /\ Quiet /\ ProviderAlwaysOk) =>
        \A e \in Endpoints :
            BagOf(Concat(sent[e])) = BagOf(IdsInOrder(admitted[e]))

\* all three requests were admitted, on two endpoints, and everything has
\* been flushed
C2_Witness ==
    /\ phase = "serving" /\ ~stopped /\ Quiet /\ ProviderAlwaysOk
    /\ Len(admitted["e1"]) = 2
    /\ Len(admitted["e2"]) = 1
    /\ Len(sent["e1"]) >= 1
    /\ Len(sent["e2"]) = 1

\* C3: per endpoint, the identifiers handed to the provider, over all provider
\* calls in order, are always the first identifiers admitted, in the order of
\* admission.
C3_SentInAdmissionOrder ==
    \A e \in Endpoints : IsPrefix(Concat(sent[e]), IdsInOrder(admitted[e]))

\* an endpoint got a batch of two notifications and, later, another batch
C3_Witness ==
    \E e \in Endpoints :
        /\ Len(sent[e]) = 2
        /\ Len(sent[e][1].rids) = 2
        /\ Len(sent[e][2].rids) = 1

\* the Queue calls admitted on the endpoint have all returned their RequestID
AllReturned(e) ==
    \A i \in 1..Len(admitted[e]) : outcome[admitted[e][i].rid] = "ok"

\* C4: size trigger. While no window timer of the endpoint has fired, fewer
\* than MaxBatchSize admitted notifications cause no provider call, and
\* MaxBatchSize admitted notifications cause at most one, carrying the
\* identifiers of all of them; once the calls have returned and the flush has
\* finished, exactly one.
C4_SizeTrigger ==
    \A e \in Endpoints :
        ~fired[e] =>
            /\ Len(admitted[e]) < MaxBatchSize => sent[e] = <<>>
            /\ Len(admitted[e]) = MaxBatchSize =>
                   /\ Len(sent[e]) <= 1
                   /\ sent[e] # <<>> =>
                          sent[e][1].ids = IdsInOrder(admitted[e])
                   /\ (AllReturned(e) /\ QuietAt(e)) => Len(sent[e]) = 1

\* MaxBatchSize calls on one endpoint have returned, no timer has fired, and
\* the one provider call has been made
C4_Witness ==
    \E e \in Endpoints :
        /\ ~fired[e]
        /\ Len(admitted[e]) = MaxBatchSize
        /\ AllReturned(e) /\ QuietAt(e)
        /\ Len(sent[e]) = 1
        /\ Len(sent[e][1].rids) = MaxBatchSize

\* C5: time trigger. After a single admitted Queue call on an endpoint (with
\* MaxBatchSize above one), no provider call for the endpoint happens before
\* the timer started by that call has fired; there is at most one provider
\* call, it carries exactly that payload, and once the timer has fired and the
\* flush has finished there is exactly one.
C5_TimeTrigger ==
    \A e \in Endpoints :
        (Len(admitted[e]) = 1 /\ MaxBatchSize > 1) =>
            /\ sent[e] # <<>> => fired[e]
            /\ Len(sent[e]) <= 1
            /\ sent[e] # <<>> => sent[e][1].ids = admitted[e][1].ids
            /\ (fired[e] /\ QuietAt(e)) => Len(sent[e]) = 1

\* one call was admitted on the endpoint, its timer has fired and the provider
\* call has been made, no earlier than one window after the start
C5_Witness ==
    \E e \in Endpoints :
        /\ Len(admitted[e]) = 1
        /\ fired[e] /\ QuietAt(e)
        /\ Len(sent[e]) = 1
        /\ sent[e][1].at >= BatchWindow

\* the provider calls that carried the request, as <<endpoint, index>>
CallsWith(r) ==
    UNION {{<<e, i>> : i \in {j \in 1..Len(sent[e]) :
                                  r \in Range(sent[e][j].rids)}} :
           e \in Endpoints}

\* a flush that carries the request is past the lock and not finished
InFlight(r) ==
    \E e \in Endpoints : \E i \in 1..Len(inFlush[e]) :
        r \in Range(inFlush[e][i].rids)

\* the flush of the request's batch has not called the provider yet
BeforeFlush(r) == CallsWith(r) = {}
\* the flush of the request's batch has finished
AfterFlush(r) == CallsWith(r) # {} /\ ~InFlight(r)

Returned == {r \in 1..MaxRequests : outcome[r] = "ok"}

\* the status row of the request cannot have expired yet
NotExpired(r) ==
    \A p \in CallsWith(r) :
        ~(Unix(sent[p[1]][p[2]].at + StatusRetention) < Unix(now))

ExpectedRow(f) ==
    [state |-> IF f.res = "ok" THEN "sent" ELSE "failed",
     sentAt |-> IF f.res = "ok" THEN f.at \div TicksPerSec ELSE NoTime,
     error |-> IF f.res = "ok" THEN "" ELSE f.res,
     expiresAt |-> (f.at + StatusRetention) \div TicksPerSec]

\* C7: the step that ends a flush gives every RequestID of the flushed batch
\* that it publishes a status the row described by the claim, built from the
\* provider outcome and the time of that flush; and it publishes one for every
\* RequestID of the batch when no store write has failed.
C7_StatusReflectsOutcome ==
    [][\A e \in Endpoints :
         (/\ Len(inFlush[e]) = 1
          /\ inFlush[e][1].pc = "publish"
          /\ inFlush'[e] = <<>>) =>
             LET f == inFlush[e][1] IN
             /\ \A r \in Range(f.rids) :
                    r \in DOMAIN storeStatus' => storeStatus'[r] = ExpectedRow(f)
             /\ (faults = MaxStoreFaults /\ faults' = faults) =>
                    Range(f.rids) \subseteq DOMAIN storeStatus']_vars

\* a failed flush and a successful one have both published their status
C7_Witness ==
    \E r, q \in DOMAIN storeStatus :
        /\ storeStatus[r].state = "failed"
        /\ storeStatus[r].error = "unregistered"
        /\ storeStatus[r].sentAt = NoTime
        /\ storeStatus[q].state = "sent"
        /\ storeStatus[q].sentAt # NoTime
        /\ storeStatus[q].expiresAt >= 1

\* the notifications of a batch row
RowNotifs(row) == deserializeNotifications(row.data)

\* Recover has returned without an error
Recovered == phase = "serving"

\* what C8 promises once Recover has returned: the batch table is empty and
\* every endpoint that had a row got exactly one provider call, carrying the
\* row's identifiers in their stored order; the other endpoints got none
RecoveredAll ==
    \A e \in Endpoints :
        /\ ~storeBatches[e].present
        /\ IF left[e].present
           THEN /\ Len(sent[e]) = 1
                /\ sent[e][1].ids = IdsInOrder(RowNotifs(left[e]))
           ELSE sent[e] = <<>>

InRows(rows) == UNION {RidSet(RowNotifs(rows[e])) : e \in Endpoints}

\* C9: a RequestID that Queue returned after a successful SaveBatch is in the
\* store's batch rows from the return of Queue until a provider call carries
\* it; and once the Recover of a restarted process has returned, every
\* request that was in the batch rows when the process started has been
\* handed to the provider.
C9_Durable ==
    /\ \A r \in durable : CallsWith(r) = {} => r \in InRows(storeBatches)
    /\ (crashes > 0 /\ Recovered) =>
           \A r \in InRows(left) : CallsWith(r) # {}

\* a durably queued request was still unsent when the process crashed and
\* was sent, once, by the Recover of the next process
C9_Witness ==
    /\ crashes > 0 /\ Recovered
    /\ \E r \in durable : r \in InRows(left) /\ Cardinality(CallsWith(r)) = 1

GaveUp == {r \in 1..MaxRequests : outcome[r] \in {"deadline", "canceled"}}

\* the requests that are somewhere in the engine or the store
Known ==
    UNION {RidSet(batch[e].notifs) \cup RidSet(admitted[e]) : e \in Endpoints}
      \cup InRows(storeBatches) \cup DOMAIN storeStatus
      \cup {r \in 1..MaxRequests : CallsWith(r) # {}}

\* C10: a Queue call that leaves the select without the lock returns a
\* deadline or cancellation error and no RequestID, and that step changes
\* neither the in-memory batches, nor the store, nor the timers; its request
\* never shows up in a batch, in the store or in a provider call.
C10_NoLockNoAdmission ==
    /\ [](GaveUp \cap Known = {})
    /\ [][\A c \in Callers :
            (call[c].pc = "wait" /\ call'[c].pc = "idle") =>
                /\ outcome'[call[c].rid] \in {"deadline", "canceled"}
                /\ UNCHANGED <<batch, timer, strays, storeBatches,
                               storeStatus>>]_vars

\* one call gave up on a timeout and one on a cancellation while the endpoint
\* had an open batch, and a goroutine left behind has taken the lock
C10_Witness ==
    /\ \E r, q \in GaveUp : outcome[r] = "deadline" /\ outcome[q] = "canceled"
    /\ \E e \in Endpoints : lock[e] = "orphan" /\ ~batch[e].nil

\* the errors of Queue that are cancellation errors: context.Canceled from the
\* stopped check, and ctx.Err() of a cancelled context
CancellationErrors == {"stopped", "canceled"}

\* C11 as stated: a Queue call that starts after Stop has returned returns a
\* cancellation error, whatever flushes are in flight; here for the calls that
\* return while a flush in flight holds the endpoint lock.
C11_AsStated ==
    [][\A c \in Callers :
         (/\ call[c].late
          /\ call[c].pc # "idle"
          /\ call'[c].pc = "idle"
          /\ lock[call[c].e] = "flush") =>
             outcome'[call[c].rid] \in CancellationErrors]_vars

\* C12: a Queue call that starts after Stop has returned changes, in none of
\* its steps, an in-memory batch, a persisted batch or the timers; it never
\* gets past the stopped check, and it ends with an error and no RequestID.
C12_StoppedQueueAdmitsNothing ==
    [][\A c \in Callers :
         ((call[c].late \/ call'[c].late) /\ call'[c] # call[c]) =>
             /\ UNCHANGED <<batch, storeBatches, timer, strays, admitted>>
             /\ call'[c].pc \in {"wait", "locked", "idle"}
             /\ call'[c].pc = "idle" =>
                    outcome'[call[c].rid] \in {"stopped", "deadline",
                                               "canceled"}]_vars

\* while an endpoint has an open, persisted batch, one call that started
\* after Stop has been turned away at the stopped check and an earlier one,
\* also started after Stop, holds the lock of that endpoint
C12_Witness ==
    \E c \in Callers :
        /\ call[c].late
        /\ call[c].pc = "locked"
        /\ ~batch[call[c].e].nil
        /\ storeBatches[call[c].e].present
        /\ \E r \in Rids : r > call[c].rid /\ outcome[r] = "stopped"

\* a timer callback of the endpoint starts to run in this step
TimerCallbackStarts(e) ==
    /\ flushPending'[e] = flushPending[e] + 1
    /\ \/ timer[e].st = "pending" /\ timer'[e].st = "fired"
       \/ Len(strays'[e]) < Len(strays[e])

\* C13 as stated: once Stop has returned the timer map is empty, and no timer
\* callback starts a flush for a batch that was open when Stop was called.
C13_AsStated ==
    /\ [](stopped => \A e \in Endpoints : timer[e] = NoTimer)
    /\ [][\A e \in Endpoints :
            (stopped /\ TimerCallbackStarts(e)) =>
                (batch[e].nil \/ Len(batch[e].notifs) = 0)]_vars

\* the steps of the pipeline in their fixed order, and the error code the
\* claim gives each
StepOrder == <<"parse", "validate", "verify", "consent", "endpoints">>
CodeOfStep(step) ==
    CASE step = "parse" -> 4
      [] step = "validate" -> 4
      [] step = "verify" -> 3
      [] step = "consent" -> 2
      [] step = "endpoints" -> 1

\* a step failed, in the words of the claim: an error, or a false or empty
\* result of a metadata lookup
StepFailed(c) ==
    \/ c.res.err
    \/ c.step \in {"verify", "consent", "endpoints"} /\ c.res.val = 0

\* the Queue calls made so far, running or returned
NumQueueCalls ==
    Cardinality({c \in Callers : call[c].pc # "idle"})
      + Cardinality({r \in Rids : outcome[r] # "none"})

NoProviderCall == \A e \in Endpoints : sent[e] = <<>>

Rejected(p) == p.pc = "done" /\ ~p.accepted
Accepted(p) == p.pc = "done" /\ p.accepted
\* the number of endpoints GetEndpoints returned for an accepted request
NumEndpoints(p) == p.calls[Len(StepOrder)].res.val

\* C14: HandlePush invokes its steps in the order parse, validate, verify,
\* consent, endpoints; a step that fails (an error, or a false or empty
\* result) is the last one invoked, and the response then has accepted=false,
\* no RequestID and the code of that step (4, 4, 3, 2, 1); a rejected request
\* has caused no Queue call and no provider call, and only a request whose
\* five steps all passed is accepted.
C14_PipelineOrder ==
    \A h \in Pushes :
        LET p == push[h]
            n == Len(p.calls)
        IN /\ n <= Len(StepOrder)
           /\ \A i \in 1..n : p.calls[i].step = StepOrder[i]
           /\ \A i \in 1..n :
                  StepFailed(p.calls[i]) =>
                      /\ i = n
                      /\ Rejected(p)
                      /\ p.code = CodeOfStep(p.calls[i].step)
                      /\ p.rid = 0
           /\ Rejected(p) =>
                  /\ n > 0 /\ StepFailed(p.calls[n])
                  /\ NumQueueCalls = 0 /\ NoProviderCall
           /\ Accepted(p) =>
                  /\ n = Len(StepOrder)
                  /\ \A i \in 1..n : ~StepFailed(p.calls[i])

\* one request was rejected with code 2 because the sender has no consent
\* (the lookup answered false), after parse, validate and verify had passed;
\* another was rejected with code 3 because the signature check gave an error
C14_Witness ==
    \E h, g \in Pushes :
        /\ Rejected(push[h]) /\ push[h].code = 2
        /\ Len(push[h].calls) = 4
        /\ ~push[h].calls[4].res.err
        /\ Rejected(push[g]) /\ push[g].code = 3
        /\ push[g].calls[3].res.err

\* C15 as stated: for an accepted request whose recipient has N >= 1
\* endpoints the response has accepted=true, code 0 and a RequestID, and
\* Queue has been called once for each of the N endpoints.
C15_AsStated ==
    \A h \in Pushes :
        Accepted(push[h]) =>
            /\ push[h].code = 0 /\ push[h].rid # 0
            /\ NumEndpoints(push[h]) >= 1
            /\ NumQueueCalls >= NumEndpoints(push[h])

\* no batch of the request is waiting for its flush
NoBatchWith(r) ==
    /\ \A e \in Endpoints : r \notin RidSet(batch[e].notifs)
    /\ r \notin InRows(storeBatches)
    /\ ~InFlight(r)

\* C16 as stated: once the batches created for an accepted request have
\* flushed with provider success, the status query for the request_id of the
\* response finds state sent, sent_at > 0 and expires_at > sent_at.
C16_AsStated ==
    \A h \in Pushes :
        (Accepted(push[h]) /\ NoBatchWith(push[h].rid) /\ ProviderAlwaysOk) =>
            LET st == HandleGetStatus(push[h].rid, FALSE)
            IN /\ st.code = 200
               /\ st.state = "sent"
               /\ st.sentAt > 0
               /\ st.expiresAt > st.sentAt

\* the provider call p was not followed by another one with the request
LastCallWith(r, p) ==
    \A q \in CallsWith(r) : sent[q[1]][q[2]].at <= sent[p[1]][p[2]].at

\* C17 as stated: for an accepted request fanned out to N endpoints, once its
\* batches have flushed, the flush of each of the N endpoints has carried its
\* one RequestID, and the status under that RequestID is the one written by
\* the last of those flushes.
C17_AsStated ==
    \A h \in Pushes :
        (Accepted(push[h]) /\ NoBatchWith(push[h].rid)
           /\ faults = MaxStoreFaults) =>
            /\ Cardinality(CallsWith(push[h].rid)) = NumEndpoints(push[h])
            /\ push[h].rid \in DOMAIN storeStatus
            /\ \E p \in CallsWith(push[h].rid) :
                   /\ LastCallWith(push[h].rid, p)
                   /\ storeStatus[push[h].rid] = ExpectedRow(sent[p[1]][p[2]])

ExpiredAt(tbl, t) == {r \in DOMAIN tbl : tbl[r].expiresAt < Unix(t)}

\* C19: whenever CleanupExpiredStatus runs, at time T, the status table it
\* leaves has no row with expires_at < T; the rows it deletes are counted in
\* the number it returns, and the other rows stay as they are.
C19_CleanupRemovesExpired ==
    /\ [](ExpiredAt(CleanupExpiredStatus(storeStatus, now), now) = {})
    /\ [][(DOMAIN storeStatus \ DOMAIN storeStatus' # {}) =>
            /\ ExpiredAt(storeStatus', now) = {}
            /\ reply'.op = "cleanup"
            /\ reply'.count =
                   Cardinality(DOMAIN storeStatus \ DOMAIN storeStatus')
            /\ \A r \in DOMAIN storeStatus' :
                   r \in DOMAIN storeStatus /\ storeStatus'[r] = storeStatus[r]
         ]_vars

\* a cleanup run has deleted two expired rows and reported 2, and a row that
\* has not expired is in the table
C19_Witness ==
    /\ reply.op = "cleanup"
    /\ reply.count = 2
    /\ DOMAIN storeStatus # {}
    /\ ExpiredAt(storeStatus, now) = {}

\* C20: DeleteBatchAndSetStatus is atomic. The step that ends a flush either
\* leaves both tables as they were (the call failed, at whatever statement,
\* or the endpoint had no batch row), or deletes the endpoint's batch row and
\* gives every RequestID of that row the status of the flush, changing
\* nothing else; and in every state no RequestID of a batch row has a status.
C20_DeleteAndStatusAtomic ==
    /\ [](\A e \in Endpoints :
              RidSet(RowNotifs(storeBatches[e])) \cap DOMAIN storeStatus = {})
    /\ [][\A e \in Endpoints :
            (/\ Len(inFlush[e]) = 1
             /\ inFlush[e][1].pc = "publish"
             /\ inFlush'[e] = <<>>
             /\ crashes' = crashes) =>
                LET row == storeBatches[e]
                    rids == RidSet(RowNotifs(row))
                    st == StatusRow(FlushStatus(inFlush[e][1].res,
                                                inFlush[e][1].at))
                IN /\ \/ UNCHANGED storeVars
                      \/ /\ row.present
                         /\ storeBatches' = [storeBatches EXCEPT ![e] = NoRow]
                         /\ storeStatus' =
                                [r \in DOMAIN storeStatus \cup rids |->
                                    IF r \in rids THEN st ELSE storeStatus[r]]
                   /\ ~row.present => UNCHANGED storeVars]_vars

\* the call of one flush failed and left the batch row and no status; the
\* call of another flush deleted a row of two notifications and both
\* RequestIDs have their status
C20_Witness ==
    \E e, g \in Endpoints :
        /\ storeBatches[e].present
        /\ batch[e].nil /\ inFlush[e] = <<>> /\ Len(sent[e]) = 1
        /\ RidSet(RowNotifs(storeBatches[e])) = Range(sent[e][1].rids)
        /\ Range(sent[e][1].rids) \cap DOMAIN storeStatus = {}
        /\ ~storeBatches[g].present
        /\ Len(sent[g]) = 1 /\ Len(sent[g][1].rids) = 2
        /\ Range(sent[g][1].rids) \subseteq DOMAIN storeStatus

\* this step is a step of a Queue call on the endpoint, of a timer callback of
\* the endpoint or of a flush of the endpoint (and not Stop)
ActsOn(e) ==
    /\ stopped' = stopped
    /\ \/ \E c \in Callers :
              /\ call'[c] # call[c]
              /\ e = IF call[c].pc # "idle" THEN call[c].e ELSE call'[c].e
       \/ flushPending'[e] # flushPending[e]
       \/ inFlush'[e] # inFlush[e]

\* the content identifiers admitted by Queue calls on the endpoint
QueuedFor(e) == Range(IdsInOrder(admitted[e]))

\* C21: coalescing is per endpoint. A step of a Queue call or of a flush on
\* one endpoint leaves the in-memory batch, the persisted batch and the timer
\* of every other endpoint as they are, and every provider call for an
\* endpoint carries only content identifiers that were queued for it.
C21_PerEndpoint ==
    /\ [](\A e \in Endpoints : \A i \in 1..Len(sent[e]) :
              Range(sent[e][i].ids) \subseteq QueuedFor(e))
    /\ [][\A e \in Endpoints :
            ActsOn(e) =>
                \A g \in Endpoints \ {e} :
                    /\ batch'[g] = batch[g]
                    /\ storeBatches'[g] = storeBatches[g]
                    /\ timer'[g] = timer[g]
                    /\ strays'[g] = strays[g]]_vars

\* the second endpoint was flushed when its batch reached the size limit,
\* while the batch of the first endpoint stays open, persisted, its timer
\* pending
C21_Witness ==
    /\ ~batch["e1"].nil
    /\ timer["e1"].st = "pending"
    /\ storeBatches["e1"].present
    /\ sent["e1"] = <<>>
    /\ batch["e2"].nil
    /\ Len(sent["e2"]) = 1
    /\ Len(sent["e2"][1].rids) = MaxBatchSize

\* the requests whose provider call failed
FailedSent ==
    {r \in Rids : \E p \in CallsWith(r) : sent[p[1]][p[2]].res # "ok"}

\* the step that ends the flush of the endpoint, and that flush
FlushEnds(e) ==
    /\ Len(inFlush[e]) = 1
    /\ inFlush[e][1].pc = "publish"
    /\ inFlush'[e] = <<>>
    /\ crashes' = crashes

\* within one process no request is handed to the provider twice, and a
\* request that has a status was handed to it once
OneCallEach ==
    /\ \A r \in Rids : Cardinality(CallsWith(r)) <= 1
    /\ \A r \in DOMAIN storeStatus : Cardinality(CallsWith(r)) = 1

\* the end of a flush whose provider call failed discards the batch from
\* memory and from the store and gives its RequestIDs the status failed
FailedFlushDiscards(e) ==
    (FlushEnds(e) /\ inFlush[e][1].res # "ok") =>
        /\ batch'[e] = NilBatch
        /\ ~storeBatches'[e].present
        /\ \A r \in Range(inFlush[e][1].rids) :
               r \in DOMAIN storeStatus' /\ storeStatus'[r].state = "failed"

\* a Queue call that appends to an endpoint's batch after a failed flush
\* starts a batch of its own notification only
FreshBatchAfterFailure(e) ==
    (Len(admitted'[e]) > Len(admitted[e])) =>
        /\ RidSet(batch'[e].notifs) \cap FailedSent = {}
        /\ RidSet(RowNotifs(storeBatches'[e])) \cap FailedSent = {}

C23_AsStated ==
    \A e \in Endpoints :
        /\ (lock[e] = "free" /\ ~batch[e].nil) =>
               /\ Len(batch[e].notifs) > 0
               /\ batch[e].flushAt > batch[e].createdAt
        /\ storeBatches[e].present =>
               /\ Len(storeBatches[e].data) > 0
               /\ storeBatches[e].flushAt > storeBatches[e].createdAt

\* C24: a status row is created only by the step that ends a flush, for a
\* RequestID that has had no status row before; while the row exists its
\* state, sent_at, error and expires_at do not change; and it goes only in a
\* step of the cleanup sweep. So a deleted row never comes back.
C24_StatusReadOnly ==
    /\ [](DOMAIN storeStatus \subseteq published)
    /\ [][/\ \A r \in DOMAIN storeStatus \cap DOMAIN storeStatus' :
                 storeStatus'[r] = storeStatus[r]
          /\ \A r \in DOMAIN storeStatus' \ DOMAIN storeStatus :
                 /\ r \notin published
                 /\ \E e \in Endpoints :
                        FlushEnds(e) /\ r \in RidSet(RowNotifs(storeBatches[e]))
          /\ (DOMAIN storeStatus \ DOMAIN storeStatus' # {}) =>
                 /\ storeStatus' = CleanupExpiredStatus(storeStatus, now)
                 /\ UNCHANGED <<engineVars, storeBatches>>]_vars

\* the status of one request has expired and was deleted by the cleanup, and
\* a later flush on the same endpoint has published a status with other
\* values for another request
C24_Witness ==
    \E r \in published : \E q \in DOMAIN storeStatus :
        /\ r \notin DOMAIN storeStatus
        /\ \E e \in Endpoints :
               /\ Len(sent[e]) = 2
               /\ r \in Range(sent[e][1].rids)
               /\ q \in Range(sent[e][2].rids)
               /\ sent[e][1].res # sent[e][2].res

\* C25 as stated: a status query for a RequestID whose status row has expired
\* is answered 404, like one for an unknown RequestID, whether or not the
\* cleanup sweep has deleted the row yet (the query's store read succeeding).
C25_AsStated ==
    [][(/\ reply' # reply
        /\ reply'.op = "status"
        /\ faults' = faults
        /\ reply'.id \in ExpiredAt(storeStatus, now)) =>
            reply'.code = 404]_vars

\* the requests whose Queue call returned a RequestID although its SaveBatch
\* failed
Unsaved == {r \in Rids : outcome[r] = "ok" /\ r \notin durable}

\* C26: when SaveBatch fails in Queue, the store is left as it was and the
\* notification is appended to the in-memory batch; the call then starts the
\* window timer if it opened the batch, starts a flush and stops the timer if
\* the batch has reached the size limit, and returns its RequestID, as after
\* a successful write; and from its return on the notification is in the
\* in-memory batch until a flush of the endpoint hands it to the provider.
C26_QueueSurvivesStoreFailure ==
    /\ [](\A r \in Unsaved :
              \/ \E e \in Endpoints : r \in RidSet(batch[e].notifs)
              \/ CallsWith(r) # {})
    /\ [][\A c \in Callers :
            LET e == call[c].e
                r == call[c].rid
            IN /\ (/\ call[c].pc = "locked" /\ call'[c].pc = "saved"
                   /\ faults' # faults) =>
                      /\ storeBatches' = storeBatches
                      /\ batch'[e].notifs =
                             Append(batch[e].notifs,
                                    [ids |-> call[c].ids, rid |-> r])
               /\ (/\ call[c].pc = "saved" /\ ~call[c].saved
                   /\ call'[c].pc = "timed") =>
                      timer'[e] =
                          IF call[c].isNew /\ ~stopped
                          THEN [st |-> "pending",
                                at |-> now + (batch[e].flushAt - call[c].t0)]
                          ELSE timer[e]
               /\ (/\ call[c].pc = "timed" /\ ~call[c].saved
                   /\ call'[c].pc = "idle") =>
                      /\ outcome'[r] = "ok"
                      /\ r \in RidSet(batch'[e].notifs)
                      /\ IF Len(batch[e].notifs) >= MaxBatchSize
                         THEN /\ flushPending'[e] = flushPending[e] + 1
                              /\ timer'[e] = NoTimer
                         ELSE UNCHANGED <<flushPending, timer>>]_vars

\* the SaveBatch of a Queue call failed, the call returned its RequestID, its
\* notification filled the batch, and the size-triggered flush has handed
\* both notifications to the provider before any timer fired
C26_Witness ==
    \E r \in Unsaved : \E e \in Endpoints :
        /\ ~fired[e]
        /\ Len(sent[e]) = 1
        /\ Len(sent[e][1].rids) = MaxBatchSize
        /\ r = sent[e][1].rids[MaxBatchSize]
        /\ PayloadOf(r) = SubSeq(sent[e][1].ids,
                                 Len(sent[e][1].ids) - Len(PayloadOf(r)) + 1,
                                 Len(sent[e][1].ids))

\* C27 as stated: a flush that is in flight when Stop is called runs to
\* completion: its next step after the provider call is pending is the
\* provider call, and its last step clears the batch, deletes the batch row
\* and publishes the status of the flush for every RequestID of the batch
\* (here for the runs in which no store operation meets an I/O error).
C27_AsStated ==
    [][\A e \in Endpoints :
         (/\ Len(inFlush[e]) = 1
          /\ inFlush[e][1].atStop
          /\ inFlush'[e] # inFlush[e]
          /\ faults = MaxStoreFaults /\ faults' = faults) =>
             LET f == inFlush[e][1]
             IN IF f.pc = "send"
                THEN Len(inFlush'[e]) = 1 /\ inFlush'[e][1].pc = "publish"
                ELSE /\ inFlush'[e] = <<>>
                     /\ batch'[e] = NilBatch
                     /\ ~storeBatches'[e].present
                     /\ \A r \in Range(f.rids) :
                            /\ r \in DOMAIN storeStatus'
                            /\ storeStatus'[r] = ExpectedRow(f)]_vars

\* no Queue call is running and no flush is waiting for the lock or past it
OperationsDone ==
    /\ \A c \in Callers : call[c].pc = "idle"
    /\ \A e \in Endpoints : flushPending[e] = 0 /\ inFlush[e] = <<>>

\* the persisted batch of the endpoint holds exactly the notifications of the
\* in-memory batch: both absent, or the same RequestIDs and content
\* identifiers in the same order
StoreMatchesMemory(e) ==
    /\ storeBatches[e].present <=> ~batch[e].nil
    /\ RowNotifs(storeBatches[e]) = batch[e].notifs

\* C28: after Stop, once the Queue calls and flushes under way have finished,
\* and if no store write has failed, the store matches the in-memory state
\* for every endpoint.
C28_StoreMatchesMemoryAfterStop ==
    (stopped /\ OperationsDone /\ faults = MaxStoreFaults) =>
        \A e \in Endpoints : StoreMatchesMemory(e)

\* after Stop and the end of every operation, one endpoint has an unflushed
\* batch of one notification, in memory and on disk, and another endpoint,
\* whose batch was flushed and got its status, has neither
C28_Witness ==
    /\ stopped /\ OperationsDone /\ faults = MaxStoreFaults
    /\ Len(batch["e1"].notifs) = 1
    /\ storeBatches["e1"].present
    /\ Len(sent["e2"]) = 1
    /\ batch["e2"].nil /\ ~storeBatches["e2"].present
    /\ sent["e2"][1].rids[1] \in DOMAIN storeStatus

\* the steps of HandlePush that call the metadata service
MetadataSteps == {"verify", "consent", "endpoints"}

\* the request was rejected at the step
FailedAt(p, step) ==
    Rejected(p) /\ p.calls[Len(p.calls)].step = step

\* C29: for each of the steps verify, consent and endpoints, any two requests
\* rejected at that step got the same error code, HTTP status and message,
\* whether the metadata client returned a negative result or an error and
\* whatever the error's text.
C29_NoMetadataDetails ==
    \A step \in MetadataSteps : \A h, g \in Pushes :
        (FailedAt(push[h], step) /\ FailedAt(push[g], step)) =>
            /\ push[h].code = push[g].code
            /\ push[h].http = push[g].http
            /\ push[h].msg = push[g].msg
            /\ push[h].rid = push[g].rid

\* two requests were rejected at the consent check, one because the lookup
\* answered false and one because it returned an error with a text of its own
C29_Witness ==
    \E h, g \in Pushes :
        /\ h # g
        /\ FailedAt(push[h], "consent") /\ FailedAt(push[g], "consent")
        /\ ~push[h].calls[4].res.err
        /\ push[g].calls[4].res.err
        /\ push[g].calls[4].res.detail \in ErrorDetails
        /\ push[h].msg = "sender not in consent list"
        /\ push[h].http = 403

\* C30: when DeleteBatchAndSetStatus fails at the end of a flush, the store
\* is left as it was and the flush still sets the in-memory batch to nil,
\* drops the endpoint's timer entry and releases the lock; and a Queue call
\* that finds no batch opens a new one holding its own notification only,
\* created at that moment.
C30_FlushClearsMemoryOnStoreFailure ==
    [][/\ \A e \in Endpoints :
              (FlushEnds(e) /\ faults' # faults) =>
                  /\ UNCHANGED storeVars
                  /\ batch'[e] = NilBatch
                  /\ timer'[e] = NoTimer
                  /\ lock'[e] = "free"
       /\ \A c \in Callers :
              (/\ call[c].pc = "locked" /\ call'[c].pc = "saved"
               /\ batch[call[c].e].nil) =>
                  /\ batch'[call[c].e].notifs =
                         <<[ids |-> call[c].ids, rid |-> call[c].rid]>>
                  /\ batch'[call[c].e].createdAt = now
                  /\ batch'[call[c].e].flushAt = now + BatchWindow
                  /\ call'[c].isNew]_vars

\* the store write of a flush failed (its durably queued batch has no status
\* and the store can fail no more), and a later Queue call has opened a new
\* batch on the endpoint, with its timer pending
C30_Witness ==
    \E e \in Endpoints :
        /\ faults = 0
        /\ Len(sent[e]) = 1
        /\ Range(sent[e][1].rids) \subseteq durable
        /\ Range(sent[e][1].rids) \cap published = {}
        /\ inFlush[e] = <<>> /\ lock[e] = "free"
        /\ Len(batch[e].notifs) = 1
        /\ RidSet(batch[e].notifs) \cap Range(sent[e][1].rids) = {}
        /\ timer[e].st = "pending"

\* ---------------------------------------------------------------- C31
\* the next step of the Queue call c that holds an endpoint lock
HolderStep(c) == QueueAdmit(c) \/ QueueTimer(c) \/ QueueFinish(c)

C32_RecoverBeforeListener ==
    /\ [](phase = "recover" => \A c \in Callers : call[c].pc = "idle")
    /\ [][(phase = "recover" /\ phase' = "serving")
             => /\ rec.todo = {}
                /\ \A e \in Endpoints :
                       flushPending[e] = 0 /\ inFlush[e] = <<>>]_vars

\* witness: after a restart the batch a crash left for an endpoint has been
\* sent by Recover and its row is gone, and now a Queue call holds the lock of
\* that endpoint
C32_Witness ==
    /\ crashes = 1
    /\ phase = "serving"
    /\ \E e \in Endpoints, c \in Callers :
           /\ left[e].present
           /\ ~storeBatches[e].present
           /\ Len(sent[e]) > 0
           /\ call[c].e = e
           /\ call[c].pc = "locked"

\* ---------------------------------------------------------------- C33
\* C33, as stated: Recover flushes each batch it finds in the store once, and
\* so comes to an end, also when the delete-and-status write of a batch
\* fails: no endpoint's batch is handed to the provider a second time by the
\* same Recover.
C33_AsStated ==
    \A e \in Endpoints :
        \A i, j \in 1..Len(sent[e]) : sent[e][i].rids = sent[e][j].rids => i = j

\* ---------------------------------------------------------------- C34
\* the Queue call c takes the step from position p to position q
CallStep(c, p, q) == call[c].pc = p /\ call'[c].pc = q

\* C34: a timer is started only by the Queue call that created the batch of
\* its endpoint (the batch holds that call's notification and nothing else);
\* a Queue call that appends to an open batch leaves created_at and flush_at
\* of the batch and every timer as they are; and the Queue call that starts
\* a flush because of the size has removed the endpoint's timer by then.
C34_TimerOnlyOnFirst ==
    [][/\ \A e \in Endpoints :
              (timer'[e].st = "pending" /\ timer'[e] # timer[e])
                  => \E c \in Callers :
                         /\ CallStep(c, "saved", "timed")
                         /\ call[c].e = e
                         /\ Len(batch[e].notifs) = 1
                         /\ batch[e].notifs[1].rid = call[c].rid
       /\ \A c \in Callers :
              LET e == call[c].e IN
              /\ (CallStep(c, "locked", "saved") /\ ~batch[e].nil)
                     => /\ batch'[e].createdAt = batch[e].createdAt
                        /\ batch'[e].flushAt = batch[e].flushAt
                        /\ Len(batch'[e].notifs) = Len(batch[e].notifs) + 1
                        /\ timer' = timer
              /\ (CallStep(c, "saved", "timed") /\ Len(batch[e].notifs) > 1)
                     => timer' = timer
              /\ (CallStep(c, "timed", "idle")
                    /\ flushPending'[e] > flushPending[e])
                     => /\ timer'[e] = NoTimer
                        /\ Len(batch[e].notifs) >= MaxBatchSize]_vars

\* witness: a Queue call has appended to a batch that was created earlier and
\* is past its timer step; the timer the creating call started is still
\* pending for the batch's flush_at
C34_Witness ==
    \E c \in Callers :
        LET e == call[c].e IN
        /\ call[c].pc = "timed"
        /\ ~call[c].isNew
        /\ Len(batch[e].notifs) = 2
        /\ batch[e].createdAt < now
        /\ timer[e].st = "pending"
        /\ timer[e].at = batch[e].flushAt

\* ---------------------------------------------------------------- C35
\* C35, as stated: a Queue call that gave up in the select leaves the endpoint
\* lock to the others: whenever the lock of an endpoint is held, its holder is
\* a Queue call that is under way or a flush that is under way, each of which
\* releases it when it returns; so the endpoint is never blocked for good.
C35_AsStated ==
    \A e \in Endpoints :
        lock[e] # "free" =>
            \/ \E c \in Callers :
                   call[c].e = e /\ call[c].pc \in {"locked", "saved", "timed"}
            \/ inFlush[e] # <<>>

\* ---------------------------------------------------------------- C36
\* C36, as stated: every flush that goes to the provider carries a batch that
\* is due: it has reached MaxBatchSize notifications, or its own window has
\* elapsed (its timer fires at flush_at at the earliest).  A leftover flush
\* never sends a newer batch of the endpoint before that.
C36_AsStated ==
    \A e \in Endpoints :
        \A i \in 1..Len(inFlush[e]) :
            \/ Len(inFlush[e][i].rids) >= MaxBatchSize
            \/ now >= batch[e].flushAt

\* ---------------------------------------------------------------- C37
\* C37, as stated: no provider call carries more than MaxBatchSize
\* notifications, also when Queue calls take the endpoint lock between a size
\* trigger and the start of its flush.
C37_AsStated ==
    \A e \in Endpoints :
        \A i \in 1..Len(sent[e]) : Len(sent[e][i].rids) <= MaxBatchSize

\* ---------------------------------------------------------------- C38
\* C38, as stated: every timer that is pending (started, not fired, not
\* stopped) is the one in the timer map under its endpoint, so there is at
\* most one per endpoint and Stop reaches all of them: no pending timer
\* exists outside the map.
C38_AsStated == \A e \in Endpoints : strays[e] = <<>>

\* ---------------------------------------------------------------- C39
\* C39, as stated: once Stop has returned, a Queue call that passed its
\* stopped check earlier neither puts a timer in the map nor starts a flush
\* because of the batch size.
C39_AsStated ==
    [][stopped =>
          \A e \in Endpoints :
              /\ timer'[e].st = "pending" => timer'[e] = timer[e]
              /\ ~\E c \in Callers :
                     /\ call[c].e = e
                     /\ CallStep(c, "timed", "idle")
                     /\ flushPending'[e] > flushPending[e]]_vars

\* ---------------------------------------------------------------- C40
\* C40, as stated: when a flush ends and its own delete-and-status write is
\* committed, the RequestIDs that get a status row in that write are exactly
\* the RequestIDs of the notifications the flush sent to the provider, also
\* when an earlier SaveBatch of the batch failed.
C40_AsStated ==
    [][\A e \in Endpoints :
         (FlushEnds(e) /\ faults' = faults /\ phase # "closed") =>
             (DOMAIN storeStatus') \ (DOMAIN storeStatus)
                 = Range(inFlush[e][1].rids)]_vars

====
